---- MODULE Spec2Model ----
(***************************************************************************)
(* Question-alignment engine of src/question_splitter.py.                  *)
(*                                                                         *)
(* Spec      QuestionSplitter.process_survey_pair driving                  *)
(*           QuestionMatcher.match_questions, one loop iteration per step, *)
(*           called by main twice on the same inputs.                      *)
(* SpecWord  WordQuestionExtractor.extract_questions, one paragraph per    *)
(*           step, over documents made of a few lines; the numbering       *)
(*           patterns are matched character by character as re does        *)
(*           (greedy, with backtracking).                                  *)
(* SpecXml   XMLQuestionExtractor.extract_questions, one title element per *)
(*           step, over small element trees and over markup that does not  *)
(*           parse.                                                        *)
(* SpecSurvey  the loop of main: each survey is extracted on both sides    *)
(*           and matched by process_survey_pair.                           *)
(*                                                                         *)
(* Scores are kept as integers in thousandths (0.8 is 800): the three      *)
(* fuzzywuzzy ratios are integer percentages r, p, t and the composite     *)
(* r/100*0.3 + p/100*0.3 + t/100*0.4 is 3r + 3p + 4t thousandths.          *)
(***************************************************************************)
EXTENDS Integers, Sequences, FiniteSets, TLC

\* ------------------------------------------------------------------ bounds
MaxWord == 2
MaxXml == 2
\* number of calls of process_survey_pair on the same inputs
MaxRuns == 2

\* The ratio triples <<ratio, partial_ratio, token_sort_ratio>> the library
\* may answer for a pair of texts, in percent.
FuzzTriples == { <<0, 0, 0>>, <<80, 90, 85>>, <<100, 100, 100>> }

\* The configured similarity_threshold values, in thousandths.
Thresholds == { 0, 800, 900 }

\* number of lines of a document
MaxLines == 4

\* WordQuestionExtractor.__init__'s default content_limit_chars
DefaultContentLimit == 2000

\* The configured content_limit_chars values.
ContentLimits == { 8, DefaultContentLimit }

\* The lines documents are made of: "Q1. ab", " 2) c " (blanks around it),
\* "Q1. 1", "xyz", "longer body" and a blank line.
Lines == { << "Q", "1", ".", " ", "a", "b" >>,
           << " ", "2", ")", " ", "c", " " >>,
           << "Q", "1", ".", " ", "1" >>,
           << "x", "y", "z" >>,
           << "l", "o", "n", "g", "e", "r", " ", "b", "o", "d", "y" >>,
           << " " >> }

\* number of elements of a markup document
MaxNodes == 3

\* An attribute that is absent (Element.get answers None).
NoAttribute == "None"

\* An element without text (Element.text is None).
NoText == << "None" >>

\* The elements markup documents are made of: three containers (page and
\* question are section boundaries, survey is not) and six title elements
\* that differ in id and text.
Element(tag, id, text) == [ tag |-> tag, id |-> id, text |-> text ]

ElementKinds ==
    { Element("page", NoAttribute, NoText),
      Element("question", NoAttribute, NoText),
      Element("survey", NoAttribute, NoText),
      Element("title", "q1", << "a" >>),
      Element("title", "q1", << " ", "b", " " >>),
      Element("title", "q1", NoText),
      Element("title", "q2", << " " >>),
      Element("title", "q2", << "a" >>),
      Element("title", NoAttribute, << "a" >>) }

\* The lines of the age scenario: "Q1. What is your age?", "18-24", "25-34",
\* and a second question "Q2) b".
AgeQuestionLine == << "Q", "1", ".", " ", "W", "h", "a", "t", " ", "i", "s", " ",
                     "y", "o", "u", "r", " ", "a", "g", "e", "?" >>

ScenarioLines == { AgeQuestionLine,
                   << "1", "8", "-", "2", "4" >>,
                   << "2", "5", "-", "3", "4" >>,
                   << "Q", "2", ")", " ", "b" >> }

VARIABLES
    threshold,       \* QuestionMatcher.similarity_threshold
    word_questions,  \* the caller's list of natural-language units
    xml_questions,   \* the caller's list of structured units
    fuzz,            \* fuzz.ratio/partial_ratio/token_sort_ratio per pair of texts
    pc,              \* position: "off", "idle", "loop", "raised", "done"
    widx,            \* number of word_questions the loop has consumed
    matches,         \* local of match_questions
    unmatched_word,  \* local of match_questions
    unmatched_xml,   \* local of match_questions: the candidate pool
    results,         \* the results returned so far, one per call (main's
                     \* debug_data)
    all_training_pairs, \* main's all_training_pairs
    content_limit_chars, \* WordQuestionExtractor.content_limit_chars
    docx_text,       \* the document, as the lines between its line breaks
    paragraphs,      \* local of extract_questions
    pidx,            \* number of paragraphs the loop has read
    wpc,             \* position in extract_questions: "off", "start", "loop",
                     \* "flush", "done"
    questions,       \* local of extract_questions: the units emitted so far
    current_question,\* local of extract_questions
    current_content, \* local of extract_questions
    current_number,  \* local of extract_questions
    xml_content,     \* the markup: well-formed or not, and its elements in
                     \* document order, each with its parent (0 for the root)
    xpc,             \* position in XMLQuestionExtractor.extract_questions:
                     \* "off", "start", "loop", "done"
    title_elements,  \* local: the elements root.xpath('//title[@id]') found
    tpos,            \* number of title_elements the loop has read
    xquestions,      \* local `questions` of the structured extractor
    seen_question_ids \* local of the structured extractor

matcherVars == << threshold, word_questions, xml_questions, fuzz, pc, widx,
                  matches, unmatched_word, unmatched_xml, results,
                  all_training_pairs >>

wordVars == << content_limit_chars, docx_text, paragraphs, pidx, wpc,
               questions, current_question, current_content, current_number >>

xmlVars == << xml_content, xpc, title_elements, tpos, xquestions,
              seen_question_ids >>

vars == << matcherVars, wordVars, xmlVars >>

\* ------------------------------------------------------------------ text
\* Texts are sequences of one-character strings.
Whitespace == { " ", "\t" }

Digits == { "0", "1", "2", "3", "4", "5", "6", "7", "8", "9" }

UpperCase == { "A", "B", "C", "D", "E", "F", "G", "H", "I", "J", "K", "L", "M",
               "N", "O", "P", "Q", "R", "S", "T", "U", "V", "W", "X", "Y", "Z" }

LowerCase == { "a", "b", "c", "d", "e", "f", "g", "h", "i", "j", "k", "l", "m",
               "n", "o", "p", "q", "r", "s", "t", "u", "v", "w", "x", "y", "z" }

\* [A-Z] under re.IGNORECASE
Letters == UpperCase \cup LowerCase

\* str.strip(): the text without its leading and trailing whitespace.
RECURSIVE Strip(_)
Strip(s) ==
    IF Len(s) = 0 THEN s
    ELSE IF s[1] \in Whitespace THEN Strip(Tail(s))
    ELSE IF s[Len(s)] \in Whitespace THEN Strip(SubSeq(s, 1, Len(s) - 1))
    ELSE s

\* s.startswith(sub, i), positions counted from 1.
StartsWithAt(s, sub, i) ==
    /\ i + Len(sub) - 1 <= Len(s)
    /\ \A j \in 1..Len(sub) : s[i + j - 1] = sub[j]

\* str.replace(old, '') from position i on: every occurrence of old, found
\* left to right without overlap, is deleted.
RECURSIVE ReplaceFrom(_, _, _)
ReplaceFrom(s, old, i) ==
    IF i > Len(s) THEN << >>
    ELSE IF Len(old) > 0 /\ StartsWithAt(s, old, i)
         THEN ReplaceFrom(s, old, i + Len(old))
         ELSE << s[i] >> \o ReplaceFrom(s, old, i + 1)

\* '\n'.join(lines)
RECURSIVE Join(_)
Join(lines) ==
    IF Len(lines) = 0 THEN << >>
    ELSE IF Len(lines) = 1 THEN lines[1]
    ELSE lines[1] \o << "\n" >> \o Join(Tail(lines))

\* sum(len(line) for line in lines)
RECURSIVE TotalChars(_)
TotalChars(lines) ==
    IF Len(lines) = 0 THEN 0 ELSE Len(lines[1]) + TotalChars(Tail(lines))

\* ------------------------------------------------------------------ normalisation
\* \s
Space == Whitespace \cup { "\n" }

\* \w
WordChars == Letters \cup Digits \cup { "_" }

UpperLetters == << "A", "B", "C", "D", "E", "F", "G", "H", "I", "J", "K", "L",
                   "M", "N", "O", "P", "Q", "R", "S", "T", "U", "V", "W", "X",
                   "Y", "Z" >>

LowerLetters == << "a", "b", "c", "d", "e", "f", "g", "h", "i", "j", "k", "l",
                   "m", "n", "o", "p", "q", "r", "s", "t", "u", "v", "w", "x",
                   "y", "z" >>

\* str.lower() of one character
LowerChar(c) ==
    IF c \in UpperCase
    THEN LowerLetters[CHOOSE i \in 1..Len(UpperLetters) : UpperLetters[i] = c]
    ELSE c

\* str.lower()
Lower(s) == [ i \in 1..Len(s) |-> LowerChar(s[i]) ]

\* re.sub(r'\s+', ' ', text) from position i on: every run of whitespace
\* becomes one blank.
RECURSIVE CollapseFrom(_, _)
CollapseFrom(s, i) ==
    IF i > Len(s) THEN << >>
    ELSE IF s[i] \in Space
         THEN IF i < Len(s) /\ s[i + 1] \in Space
              THEN CollapseFrom(s, i + 1)
              ELSE << " " >> \o CollapseFrom(s, i + 1)
         ELSE << s[i] >> \o CollapseFrom(s, i + 1)

CollapseSpace(s) == CollapseFrom(s, 1)

\* The survey artifacts of normalize_text, in the order of the list.
artifacts ==
    << << "(", "p", "l", "e", "a", "s", "e", " ", "s", "e", "l", "e", "c",
          "t", " ", "o", "n", "e", ")" >>,
       << "(", "s", "e", "l", "e", "c", "t", " ", "a", "l", "l", " ", "t",
          "h", "a", "t", " ", "a", "p", "p", "l", "y", ")" >>,
       << "(", "c", "h", "e", "c", "k", " ", "a", "l", "l", " ", "t", "h",
          "a", "t", " ", "a", "p", "p", "l", "y", ")" >>,
       << "(", "s", "i", "n", "g", "l", "e", " ", "r", "e", "s", "p", "o",
          "n", "s", "e", ")" >>,
       << "(", "m", "u", "l", "t", "i", "p", "l", "e", " ", "r", "e", "s",
          "p", "o", "n", "s", "e", ")" >> >>

\* The artifact stands at position i, compared letter for letter (the
\* IGNORECASE flag left out).
MatchesExactCase(s, artifact, i) ==
    /\ i + Len(artifact) - 1 <= Len(s)
    /\ \A j \in 1..Len(artifact) : s[i + j - 1] = artifact[j]

\* The artifact stands at position i of s, under re.IGNORECASE.
MatchesIgnoreCase(s, artifact, i) ==
    /\ i + Len(artifact) - 1 <= Len(s)
    /\ \A j \in 1..Len(artifact) : LowerChar(s[i + j - 1]) = artifact[j]

\* re.sub(artifact, '', text, flags=re.IGNORECASE) from position i on: the
\* occurrences found left to right, without overlap, are deleted. Where
\* fewer characters are left than the artifact has, no occurrence follows
\* and the rest is kept as it is.
RECURSIVE RemoveArtifact(_, _, _)
RemoveArtifact(s, artifact, i) ==
    IF i + Len(artifact) - 1 > Len(s) THEN SubSeq(s, i, Len(s))
    ELSE IF MatchesIgnoreCase(s, artifact, i)
         THEN RemoveArtifact(s, artifact, i + Len(artifact))
         ELSE << s[i] >> \o RemoveArtifact(s, artifact, i + 1)

\* The for loop over the artifacts from the k-th on.
RECURSIVE RemoveArtifacts(_, _)
RemoveArtifacts(s, k) ==
    IF k > Len(artifacts) THEN s
    ELSE RemoveArtifacts(RemoveArtifact(s, artifacts[k], 1), k + 1)

\* [\w\s\?]
KeptChars == WordChars \cup Space \cup { "?" }

\* re.sub(r'[^\w\s\?]', ' ', text)
BlankPunctuation(s) ==
    [ i \in 1..Len(s) |-> IF s[i] \in KeptChars THEN s[i] ELSE " " ]

\* QuestionMatcher.normalize_text
normalize_text(text) ==
    Lower(Strip(CollapseSpace(BlankPunctuation(
        RemoveArtifacts(Strip(CollapseSpace(text)), 1)))))

\* ------------------------------------------------------------------ units
\* The question texts of the k-th natural-language unit ("a", "b", ...)
\* and of the k-th structured unit ("n", "o", ...).
WordText(k) == << LowerLetters[k] >>

XmlText(k) == << LowerLetters[k + 13] >>

\* A natural-language unit as WordQuestionExtractor emits it; number and
\* content are opaque here and named by a number.
WordUnit(k) == [ number |-> k, text |-> WordText(k), full_content |-> k,
                 word_index |-> k - 1 ]

\* A structured unit as XMLQuestionExtractor emits it.
XmlUnit(k) == [ id |-> k, text |-> XmlText(k), full_section |-> k,
                xml_index |-> k - 1 ]

\* Python's None where a structured unit is expected.
None == [ id |-> -1, text |-> -1, xml_index |-> -1 ]

\* ------------------------------------------------------------------ scorer
\* fuzz.ratio, fuzz.partial_ratio and fuzz.token_sort_ratio of two
\* normalised texts, in percent: 100 each for equal texts, else what the
\* table holds.
Ratios(norm1, norm2) ==
    IF norm1 = norm2 THEN << 100, 100, 100 >> ELSE fuzz[<< norm1, norm2 >>]

\* calculate_similarity with the first weight mistyped as 0.4.
calculate_similarity_w4(text1, text2) ==
    LET f == Ratios(normalize_text(text1), normalize_text(text2))
    IN  f[1] * 4 + f[2] * 3 + f[3] * 4

\* calculate_similarity with the division of the ratios by 100.0 left out.
calculate_similarity_percent(text1, text2) ==
    LET f == Ratios(normalize_text(text1), normalize_text(text2))
    IN  (f[1] * 3 + f[2] * 3 + f[3] * 4) * 100

\* QuestionMatcher.calculate_similarity
calculate_similarity(text1, text2) ==
    LET f == Ratios(normalize_text(text1), normalize_text(text2))
    IN  f[1] * 3 + f[2] * 3 + f[3] * 4

\* ------------------------------------------------------------------ matcher
\* The loop with the first positive candidate kept for good.
RECURSIVE ScanFirstPositive(_, _, _, _, _)
ScanFirstPositive(word_q, xs, k, best_match, best_score) ==
    IF k > Len(xs)
    THEN [ match |-> best_match, score |-> best_score ]
    ELSE LET score == calculate_similarity(word_q.text, xs[k].text)
         IN  IF score > best_score /\ best_match = None
             THEN ScanFirstPositive(word_q, xs, k + 1, xs[k], score)
             ELSE ScanFirstPositive(word_q, xs, k + 1, best_match, best_score)

\* The loop with >= for >: the last of several equal candidates wins.
RECURSIVE ScanLastWins(_, _, _, _, _)
ScanLastWins(word_q, xs, k, best_match, best_score) ==
    IF k > Len(xs)
    THEN [ match |-> best_match, score |-> best_score ]
    ELSE LET score == calculate_similarity(word_q.text, xs[k].text)
         IN  IF score >= best_score
             THEN ScanLastWins(word_q, xs, k + 1, xs[k], score)
             ELSE ScanLastWins(word_q, xs, k + 1, best_match, best_score)

\* The for loop of find_best_match from candidate k on.
RECURSIVE ScanCandidates(_, _, _, _, _)
ScanCandidates(word_q, xs, k, best_match, best_score) ==
    IF k > Len(xs)
    THEN [ match |-> best_match, score |-> best_score ]
    ELSE LET score == calculate_similarity(word_q.text, xs[k].text)
         IN  IF score > best_score
             THEN ScanCandidates(word_q, xs, k + 1, xs[k], score)
             ELSE ScanCandidates(word_q, xs, k + 1, best_match, best_score)

\* The threshold test dropped: every best candidate is accepted.
AcceptAny(best_score) == best_score >= 0

\* The threshold test that ends find_best_match.
AcceptScore(best_score) == best_score >= threshold

\* QuestionMatcher.find_best_match: <<match, score>> or the empty tuple for
\* None.
find_best_match(word_q, xs) ==
    LET b == ScanCandidates(word_q, xs, 1, None, 0)
    IN  IF AcceptScore(b.score) THEN << b.match, b.score >> ELSE << >>

\* list.index: the first position holding a value equal to q, 0 when absent.
ListIndex(xs, q) ==
    IF \E k \in 1..Len(xs) : xs[k] = q
    THEN CHOOSE k \in 1..Len(xs) : xs[k] = q /\ \A j \in 1..(k - 1) : xs[j] # q
    ELSE 0

\* The removal forgotten: the pool keeps the consumed unit.
ListKeep(xs, q) == xs

\* list.pop() for list.remove(q): the last element is dropped.
ListPop(xs, q) == SubSeq(xs, 1, Len(xs) - 1)

\* list.remove(q) on a list that holds q: the first equal element is dropped.
ListRemove(xs, q) ==
    LET k == ListIndex(xs, q)
    IN  SubSeq(xs, 1, k - 1) \o SubSeq(xs, k + 1, Len(xs))

\* The pool aliased to the caller's list (no copy).
CallerListAliased(caller, pool) == pool

\* xml_questions.copy(): the caller's list after the pool has become `pool`.
CallerListAfter(caller, pool) == caller

\* The guards of the two early returns of process_survey_pair.
NoWordQuestions == Len(word_questions) = 0

\* The second guard left out.
NoXmlQuestionsUnchecked == FALSE

NoXmlQuestions == Len(xml_questions) = 0

\* The three early or normal results of process_survey_pair.
EmptyWordResult == [ matches |-> << >>, unmatched_word |-> << >>,
                     unmatched_xml |-> xml_questions ]

\* The second early return with the word units left out.
EmptyXmlResultNoWord == [ matches |-> << >>, unmatched_word |-> << >>,
                          unmatched_xml |-> << >> ]

EmptyXmlResult == [ matches |-> << >>, unmatched_word |-> word_questions,
                    unmatched_xml |-> << >> ]

\* The result returned without the word units that found no partner.
MatchResultMatchesOnly == [ matches |-> matches, unmatched_word |-> << >>,
                            unmatched_xml |-> unmatched_xml ]

MatchResult == [ matches |-> matches, unmatched_word |-> unmatched_word,
                 unmatched_xml |-> unmatched_xml ]

\* ------------------------------------------------------------------ corpus
\* The training_pair dict create_training_pairs builds for one match.
TrainingPair(survey_title, match) ==
    [ survey_title |-> survey_title,
      question_number |-> match.word_question.number,
      natural_language |-> match.word_question.full_content,
      xml_code |-> match.xml_question.full_section,
      similarity_score |-> match.similarity_score,
      metadata |-> [ word_index |-> match.word_question.word_index,
                     xml_index |-> match.xml_question.xml_index,
                     xml_id |-> match.xml_question.id ] ]

\* The loop returning after its first iteration.
create_training_pairs_first(survey_title, ms) ==
    IF Len(ms) = 0 THEN << >>
    ELSE << TrainingPair(survey_title, ms[1]) >>

\* QuestionSplitter.create_training_pairs
create_training_pairs(survey_title, ms) ==
    [ k \in 1..Len(ms) |-> TrainingPair(survey_title, ms[k]) ]

\* The pairs of a survey put in place of the corpus (= for extend).
ExtendReplacing(pairs, result, survey_title) ==
    IF Len(result.matches) > 0
    THEN create_training_pairs(survey_title, result.matches)
    ELSE pairs

\* Lines 410-412 of main: the corpus after the pairs of `result` were added.
ExtendPairs(pairs, result, survey_title) ==
    IF Len(result.matches) > 0
    THEN pairs \o create_training_pairs(survey_title, result.matches)
    ELSE pairs

\* The title of the survey main is processing: surveys are named by their
\* position in training_data.
SurveyTitle == Len(results) + 1

\* ------------------------------------------------------------------ patterns
\* One element of a pattern: a character class taken `min` times at least
\* and, when `many`, any number of times (else once at most).
One(cls) == [ cls |-> cls, min |-> 1, many |-> FALSE ]
Opt(cls) == [ cls |-> cls, min |-> 0, many |-> FALSE ]
Star(cls) == [ cls |-> cls, min |-> 0, many |-> TRUE ]
Plus(cls) == [ cls |-> cls, min |-> 1, many |-> TRUE ]

QS == { "q", "s", "Q", "S" }

\* WordQuestionExtractor.question_patterns, each without its final (.+),
\* compiled with re.IGNORECASE.
question_patterns ==
    << << Star(Whitespace), One(QS), Plus(Digits), Star({ ".", ")" }),
          Star(Whitespace) >>,
       << Star(Whitespace), Opt({ "[" }), One(QS), Plus(Digits), Opt({ "]" }),
          Star(Whitespace) >>,
       << Star(Whitespace), Opt({ "(" }), One(QS), Plus(Digits), Opt({ ")" }),
          Star(Whitespace) >>,
       << Star(Whitespace), Plus(Digits), One({ ".", ")" }), Star(Whitespace) >>,
       << Star(Whitespace), One(Letters), Plus(Digits), Star({ ".", ")" }),
          Star(Whitespace) >>,
       << Star(Whitespace), One({ "Q", "q" }), One({ "U", "u" }),
          One({ "E", "e" }), One({ "S", "s" }), One({ "T", "t" }),
          One({ "I", "i" }), One({ "O", "o" }), One({ "N", "n" }),
          Plus(Whitespace), Plus(Digits), Opt({ ":", "." }), Star(Whitespace) >>,
       << Star(Whitespace), Plus(Letters), Star(Digits), One({ ".", ")" }),
          Star(Whitespace) >>,
       << Star(Whitespace), Plus(Digits), One({ "." }), Plus(Digits),
          Star(Whitespace) >> >>

\* The number of characters of s from position i on that are in cls.
RECURSIVE RunLen(_, _, _)
RunLen(s, i, cls) ==
    IF i <= Len(s) /\ s[i] \in cls THEN 1 + RunLen(s, i + 1, cls) ELSE 0

\* re's greedy match with backtracking of the elements k.. of pat against s
\* from position i, followed by (.+): the position where group 1 starts, 0
\* when there is no match. TryCount tries element k with n characters, then
\* with fewer.
RECURSIVE MatchFrom(_, _, _, _)
RECURSIVE TryCount(_, _, _, _, _)
MatchFrom(s, i, pat, k) ==
    IF k > Len(pat)
    THEN IF i <= Len(s) THEN i ELSE 0
    ELSE LET run == RunLen(s, i, pat[k].cls)
             most == IF pat[k].many \/ run = 0 THEN run ELSE 1
         IN  TryCount(s, i, pat, k, most)

TryCount(s, i, pat, k, n) ==
    IF n < pat[k].min THEN 0
    ELSE LET g == MatchFrom(s, i + n, pat, k + 1)
         IN  IF g # 0 THEN g ELSE TryCount(s, i, pat, k, n - 1)

\* pattern.match(paragraph) for the k-th compiled pattern: where group 1
\* starts, 0 for no match. Group 0 is the whole paragraph, group 1 its rest.
PatternMatch(k, paragraph) == MatchFrom(paragraph, 1, question_patterns[k], 1)

\* The first pattern that matches, 0 when none does.
FirstPattern(paragraph) ==
    IF \E k \in 1..Len(question_patterns) : PatternMatch(k, paragraph) # 0
    THEN CHOOSE k \in 1..Len(question_patterns) :
             /\ PatternMatch(k, paragraph) # 0
             /\ \A j \in 1..(k - 1) : PatternMatch(j, paragraph) = 0
    ELSE 0

\* is_question_start answering True for every paragraph that is not blank.
is_question_start_nonblank(paragraph) == Len(Strip(paragraph)) > 0

\* WordQuestionExtractor.is_question_start
is_question_start(paragraph) ==
    LET p == Strip(paragraph)
    IN  IF Len(p) = 0 THEN FALSE ELSE FirstPattern(p) # 0

\* WordQuestionExtractor.extract_question_number
extract_question_number(paragraph) ==
    LET p == Strip(paragraph)
        k == FirstPattern(p)
    IN  IF k = 0 THEN << >>
        ELSE LET full_match == p
                 question_text == SubSeq(p, PatternMatch(k, p), Len(p))
             IN  Strip(ReplaceFrom(full_match, question_text, 1))

\* WordQuestionExtractor.extract_question_text
extract_question_text(paragraph) ==
    LET p == Strip(paragraph)
        k == FirstPattern(p)
    IN  IF k = 0 THEN p
        ELSE Strip(SubSeq(p, PatternMatch(k, p), Len(p)))

\* [p.strip() for p in docx_text.split('\n') if p.strip()]
RECURSIVE SplitParagraphs(_)
SplitParagraphs(lines) ==
    IF Len(lines) = 0 THEN << >>
    ELSE IF Len(Strip(lines[1])) > 0
         THEN << Strip(lines[1]) >> \o SplitParagraphs(Tail(lines))
         ELSE SplitParagraphs(Tail(lines))

\* The test on current_question left out: every value counts as true.
TruthyAlways(text) == TRUE

\* Python's truth value of current_question: None and '' are both false.
Truthy(text) == Len(text) > 0

\* The line put in place of the content instead of after it.
ReplaceLine(content, para) == << para >>

\* current_content.append(para)
AppendLine(content, para) == Append(content, para)

\* The unit extract_questions appends for the open question.
OpenUnit == [ number |-> current_number,
              text |-> current_question,
              full_content |-> Join(current_content),
              word_index |-> Len(questions) ]

\* wpc after the content-limit test: break leaves the for loop.
AfterLimitExceeded == "flush"

\* ------------------------------------------------------------------ markup
\* The markup that lxml cannot parse.
Malformed == [ wellformed |-> FALSE, nodes |-> << >> ]

\* The ancestors of element i, nearest first, as a set.
RECURSIVE Ancestors(_, _)
Ancestors(parent, i) ==
    IF parent[i] = 0 THEN { } ELSE { parent[i] } \cup Ancestors(parent, parent[i])

\* The parent maps of n elements numbered in document order: the root has
\* none and every other element hangs below its predecessor or below one of
\* the predecessor's ancestors.
ParentMaps(n) ==
    { parent \in [ 1..n -> 0..(n - 1) ] :
          /\ parent[1] = 0
          /\ \A i \in 2..n : parent[i] < i /\ parent[i] > 0
          /\ \A i \in 2..n :
                 parent[i] \in { i - 1 } \cup Ancestors(parent, i - 1) }

\* The well-formed documents of n elements.
Documents(n) ==
    { [ wellformed |-> TRUE,
        nodes |-> [ i \in 1..n |->
                      [ tag |-> kinds[i].tag, id |-> kinds[i].id,
                        text |-> kinds[i].text, parent |-> parent[i] ] ] ] :
          kinds \in [ 1..n -> ElementKinds ], parent \in ParentMaps(n) }

\* etree.tostring(element): the element with its attributes, its text and
\* its children in document order, as a sequence of tokens.
RECURSIVE Serialize(_, _)
RECURSIVE SerializeChildren(_, _, _)
Serialize(nodes, i) ==
    << "<", nodes[i].tag, nodes[i].id, ">" >>
        \o (IF nodes[i].text = NoText THEN << >> ELSE nodes[i].text)
        \o SerializeChildren(nodes, i, i + 1)
        \o << "</", nodes[i].tag, ">" >>

SerializeChildren(nodes, i, j) ==
    IF j > Len(nodes) THEN << >>
    ELSE (IF nodes[j].parent = i THEN Serialize(nodes, j) ELSE << >>)
             \o SerializeChildren(nodes, i, j + 1)

\* root.xpath('//title[@id]'): the title elements that carry an id, in
\* document order, from element i on.
RECURSIVE TitlesWithId(_, _)
TitlesWithId(nodes, i) ==
    IF i > Len(nodes) THEN << >>
    ELSE (IF nodes[i].tag = "title" /\ nodes[i].id # NoAttribute
          THEN << i >> ELSE << >>) \o TitlesWithId(nodes, i + 1)

\* title.text or ""
TextOrEmpty(text) == IF text = NoText THEN << >> ELSE text

\* The test of line 169 without its first half: duplicates are let through.
SkipOnlyEmpty(question_id, question_text, seen) ==
    Len(Strip(question_text)) = 0

\* The test of line 169 without its second half: empty titles are let
\* through.
SkipOnlyDuplicates(question_id, question_text, seen) ==
    question_id \in seen

\* question_id in seen_question_ids or not question_text.strip()
SkipTitle(question_id, question_text, seen) ==
    question_id \in seen \/ Len(Strip(question_text)) = 0

\* The add forgotten.
SeenUnchanged(seen, question_id) == seen

\* seen_question_ids.add(question_id)
SeenAdd(seen, question_id) == seen \cup { question_id }

\* The tags that bound a section.
SectionTags == { "suspend", "page", "question", "exec" }

\* The walk stopped at once: the immediate parent is taken, whatever its tag.
WalkNowhere(nodes, parent) == parent

\* The while loop of lines 176-177 from `parent` on: the element it stops
\* at, 0 for None.
RECURSIVE WalkUp(_, _)
WalkUp(nodes, parent) ==
    IF parent # 0 /\ nodes[parent].tag \notin SectionTags
    THEN WalkUp(nodes, nodes[parent].parent)
    ELSE parent

\* The element lines 175-187 serialize for a title element.
SectionElement(nodes, title) ==
    LET parent == WalkUp(nodes, nodes[title].parent)
        context_parent == nodes[title].parent
    IN  IF parent # 0 THEN parent
        ELSE IF context_parent # 0 THEN context_parent
        ELSE title

\* The unit numbered by the position of its title among the title elements
\* (counted before the filtering).
TitleUnitByPosition(nodes, title) ==
    [ id |-> nodes[title].id,
      text |-> Strip(TextOrEmpty(nodes[title].text)),
      full_section |-> Serialize(nodes, SectionElement(nodes, title)),
      xml_index |-> tpos ]

\* The unit appended for a title element.
TitleUnit(nodes, title) ==
    [ id |-> nodes[title].id,
      text |-> Strip(TextOrEmpty(nodes[title].text)),
      full_section |-> Serialize(nodes, SectionElement(nodes, title)),
      xml_index |-> Len(xquestions) ]

\* ------------------------------------------------------------------ Init
\* The structured extractor at rest.
XmlIdle ==
    /\ xml_content = Malformed
    /\ xpc = "off"
    /\ title_elements = << >>
    /\ tpos = 0
    /\ xquestions = << >>
    /\ seen_question_ids = { }

\* The extractor at rest, while the matcher is the subject.
WordIdle ==
    /\ content_limit_chars = DefaultContentLimit
    /\ docx_text = << >>
    /\ paragraphs = << >>
    /\ pidx = 0
    /\ wpc = "off"
    /\ questions = << >>
    /\ current_question = << >>
    /\ current_content = << >>
    /\ current_number = << >>

Init ==
    /\ WordIdle
    /\ XmlIdle
    /\ threshold \in Thresholds
    /\ \E nw \in 0..MaxWord, nx \in 0..MaxXml :
          /\ word_questions = [ k \in 1..nw |-> WordUnit(k) ]
          /\ xml_questions = [ k \in 1..nx |-> XmlUnit(k) ]
          /\ fuzz \in [ { normalize_text(WordText(k)) : k \in 1..nw }
                           \X { normalize_text(XmlText(k)) : k \in 1..nx }
                         -> FuzzTriples ]
    /\ pc = "idle"
    /\ widx = 0
    /\ matches = << >>
    /\ unmatched_word = << >>
    /\ unmatched_xml = << >>
    /\ results = << >>
    /\ all_training_pairs = << >>

\* ------------------------------------------------------------------ actions
AfterReturn == IF Len(results) + 1 < MaxRuns THEN "idle" ELSE "done"

\* process_survey_pair up to the first iteration of match_questions' loop;
\* when it returns early, main adds the result to its two accumulators
\* (lines 410-415).
ProcessSurveyPair ==
    /\ pc = "idle"
    /\ IF NoWordQuestions
       THEN /\ results' = Append(results, EmptyWordResult)
            /\ all_training_pairs' =
                   ExtendPairs(all_training_pairs, EmptyWordResult, SurveyTitle)
            /\ pc' = AfterReturn
            /\ UNCHANGED << widx, matches, unmatched_word, unmatched_xml >>
       ELSE IF NoXmlQuestions
       THEN /\ results' = Append(results, EmptyXmlResult)
            /\ all_training_pairs' =
                   ExtendPairs(all_training_pairs, EmptyXmlResult, SurveyTitle)
            /\ pc' = AfterReturn
            /\ UNCHANGED << widx, matches, unmatched_word, unmatched_xml >>
       ELSE /\ matches' = << >>
            /\ unmatched_word' = << >>
            /\ unmatched_xml' = xml_questions
            /\ widx' = 0
            /\ pc' = "loop"
            /\ UNCHANGED << results, all_training_pairs >>
    /\ UNCHANGED << threshold, word_questions, xml_questions, fuzz >>
    /\ UNCHANGED wordVars
    /\ UNCHANGED xmlVars

\* One iteration of the loop of match_questions.
MatchStep ==
    /\ pc = "loop"
    /\ widx < Len(word_questions)
    /\ \E word_q \in { word_questions[widx + 1] } :
       \E result \in { find_best_match(word_q, unmatched_xml) } :
           IF result # << >>
           THEN LET xml_q == result[1]
                    score == result[2]
                IN  /\ matches' = Append(matches,
                                         [ word_question |-> word_q,
                                           xml_question |-> xml_q,
                                           similarity_score |-> score ])
                    /\ IF ListIndex(unmatched_xml, xml_q) = 0
                       THEN \* list.remove raises ValueError
                            /\ pc' = "raised"
                            /\ UNCHANGED << unmatched_xml, xml_questions, widx >>
                       ELSE /\ unmatched_xml' = ListRemove(unmatched_xml, xml_q)
                            /\ xml_questions' =
                                   CallerListAfter(xml_questions, unmatched_xml')
                            /\ widx' = widx + 1
                            /\ pc' = "loop"
                    /\ UNCHANGED unmatched_word
           ELSE /\ unmatched_word' = Append(unmatched_word, word_q)
                /\ widx' = widx + 1
                /\ UNCHANGED << matches, unmatched_xml, xml_questions, pc >>
    /\ UNCHANGED << threshold, word_questions, fuzz, results,
                    all_training_pairs >>
    /\ UNCHANGED wordVars
    /\ UNCHANGED xmlVars

\* The loop is exhausted: match_questions returns, process_survey_pair
\* hands the result on and main adds it to its two accumulators (lines
\* 410-415).
MatchReturn ==
    /\ pc = "loop"
    /\ widx = Len(word_questions)
    /\ results' = Append(results, MatchResult)
    /\ all_training_pairs' =
           ExtendPairs(all_training_pairs, MatchResult, SurveyTitle)
    /\ pc' = AfterReturn
    /\ UNCHANGED << threshold, word_questions, xml_questions, fuzz, widx,
                    matches, unmatched_word, unmatched_xml >>
    /\ UNCHANGED wordVars
    /\ UNCHANGED xmlVars

Next ==
    \/ ProcessSurveyPair
    \/ MatchStep
    \/ MatchReturn

Spec == Init /\ [][Next]_vars

\* The values fuzz.ratio, fuzz.partial_ratio and fuzz.token_sort_ratio may
\* answer, in percent.
Percentages == { 0, 1, 50, 99, 100 }

\* The matcher on one unit of each side, over every combination of the
\* three ratios.
InitScorer ==
    /\ WordIdle
    /\ XmlIdle
    /\ threshold \in Thresholds
    /\ word_questions = << WordUnit(1) >>
    /\ xml_questions = << XmlUnit(1) >>
    /\ fuzz \in [ { << normalize_text(WordText(1)), normalize_text(XmlText(1)) >> }
                   -> Percentages \X Percentages \X Percentages ]
    /\ pc = "idle"
    /\ widx = 0
    /\ matches = << >>
    /\ unmatched_word = << >>
    /\ unmatched_xml = << >>
    /\ results = << >>
    /\ all_training_pairs = << >>

SpecScorer == InitScorer /\ [][Next]_vars

\* ------------------------------------------------------------------ wordings
\* A text is written piece by piece.  A piece lists the ways it may be
\* written that differ in letter case or in the length of a whitespace run
\* only; an optional piece is a listed phrase that may be left out (its
\* first wording is the empty text).  The first wording of a piece is in
\* lower case with single blanks.
Piece(optional, wordings) == [ optional |-> optional, wordings |-> wordings ]

\* "What is your age?"
AgeText == << "W", "h", "a", "t", " ", "i", "s", " ", "y", "o", "u", "r",
              " ", "a", "g", "e", "?" >>

AgePiece == Piece(FALSE, << AgeText, << "W", "H", "A", "T", " ", "i", "s", " ",
                                  "y", "o", "u", "r", " ", "A", "g", "e",
                                  "?" >> >>)

\* "ab"
ShortPiece == Piece(FALSE, << << "a", "b" >>, << "A", "b" >> >>)

BlankPiece == Piece(FALSE, << << " " >>, << "\t", " " >> >>)

\* "(please select one)", also as "(PLEASE  Select One)"
PleasePiece ==
    Piece(TRUE, << << >>, artifacts[1],
                   << "(", "P", "L", "E", "A", "S", "E", " ", " ", "S", "e",
                      "l", "e", "c", "t", " ", "O", "n", "e", ")" >> >>)

\* "(single response)"
SinglePiece == Piece(TRUE, << << >>, artifacts[4] >>)

\* " (please select one)" at the end of a text
PleaseTailPiece == Piece(TRUE, << << >>, << " " >> \o artifacts[1] >>)

\* "(please " and "select one)": the two halves of a listed phrase
OpenPiece == Piece(FALSE, << SubSeq(artifacts[1], 1, 8) >>)

ClosePiece == Piece(FALSE, << SubSeq(artifacts[1], 9, Len(artifacts[1])) >>)

\* The texts calculate_similarity is given, as sequences of pieces.
Bases ==
    { << AgePiece, PleaseTailPiece >>,
      << AgePiece, BlankPiece, SinglePiece >>,
      << PleasePiece, AgePiece >>,
      << ShortPiece, BlankPiece, ShortPiece >>,
      << ShortPiece, PleasePiece, ShortPiece >>,
      << PleasePiece >>,
      << SinglePiece, BlankPiece, PleasePiece >>,
      << OpenPiece, SinglePiece, ClosePiece >>,
      << OpenPiece, PleasePiece, ClosePiece >> }

\* The ways of writing a base: one wording per piece.
Writings(base) ==
    { w \in [ 1..Len(base) -> 1..3 ] :
          \A i \in 1..Len(base) : w[i] <= Len(base[i].wordings) }

\* The text of a base written as w, from piece i on.
RECURSIVE TextFrom(_, _, _)
TextFrom(base, w, i) ==
    IF i > Len(base) THEN << >>
    ELSE base[i].wordings[w[i]] \o TextFrom(base, w, i + 1)

\* Two texts that differ only in the wording of their pieces are scored
\* with threshold 0.9.
InitWording ==
    /\ WordIdle
    /\ XmlIdle
    /\ threshold = 900
    /\ \E base \in Bases : \E w1, w2 \in Writings(base) :
          LET text1 == TextFrom(base, w1, 1)
              text2 == TextFrom(base, w2, 1)
              norm1 == normalize_text(text1)
              norm2 == normalize_text(text2)
          IN  /\ word_questions = << [ WordUnit(1) EXCEPT !.text = text1 ] >>
              /\ xml_questions = << [ XmlUnit(1) EXCEPT !.text = text2 ] >>
              /\ fuzz \in [ IF norm1 = norm2 THEN { }
                             ELSE { << norm1, norm2 >> } -> FuzzTriples ]
    /\ pc = "idle"
    /\ widx = 0
    /\ matches = << >>
    /\ unmatched_word = << >>
    /\ unmatched_xml = << >>
    /\ results = << >>
    /\ all_training_pairs = << >>

SpecWording == InitWording /\ [][Next]_vars

\* The matcher at rest, while the extractor is the subject.
MatcherIdle ==
    /\ threshold = 800
    /\ word_questions = << >>
    /\ xml_questions = << >>
    /\ fuzz = << >>
    /\ pc = "off"
    /\ widx = 0
    /\ matches = << >>
    /\ unmatched_word = << >>
    /\ unmatched_xml = << >>
    /\ results = << >>
    /\ all_training_pairs = << >>

InitWord ==
    /\ MatcherIdle
    /\ XmlIdle
    /\ content_limit_chars \in ContentLimits
    /\ \E n \in 0..MaxLines : docx_text \in [ 1..n -> Lines ]
    /\ paragraphs = << >>
    /\ pidx = 0
    /\ wpc = "start"
    /\ questions = << >>
    /\ current_question = << >>
    /\ current_content = << >>
    /\ current_number = << >>

\* extract_questions up to its for loop.
ExtractStart ==
    /\ wpc = "start"
    /\ paragraphs' = SplitParagraphs(docx_text)
    /\ questions' = << >>
    /\ current_question' = << >>
    /\ current_content' = << >>
    /\ current_number' = << >>
    /\ pidx' = 0
    /\ wpc' = "loop"
    /\ UNCHANGED << content_limit_chars, docx_text >>
    /\ UNCHANGED matcherVars
    /\ UNCHANGED xmlVars

\* One iteration of the for loop of extract_questions.
ParagraphStep ==
    /\ wpc = "loop"
    /\ pidx < Len(paragraphs)
    /\ LET para == paragraphs[pidx + 1]
       IN  IF is_question_start(para)
           THEN /\ questions' = IF Truthy(current_question)
                                 THEN Append(questions, OpenUnit)
                                 ELSE questions
                /\ current_number' = extract_question_number(para)
                /\ current_question' = extract_question_text(para)
                /\ current_content' = << para >>
                /\ wpc' = "loop"
           ELSE IF Truthy(current_question) /\ Len(para) > 0
           THEN /\ current_content' = AppendLine(current_content, para)
                /\ wpc' = IF TotalChars(current_content') > content_limit_chars
                           THEN AfterLimitExceeded
                           ELSE "loop"
                /\ UNCHANGED << questions, current_number, current_question >>
           ELSE /\ wpc' = "loop"
                /\ UNCHANGED << questions, current_number, current_question,
                                current_content >>
    /\ pidx' = pidx + 1
    /\ UNCHANGED << content_limit_chars, docx_text, paragraphs >>
    /\ UNCHANGED matcherVars
    /\ UNCHANGED xmlVars

\* After the loop: the open question is appended and the list returned.
ExtractReturn ==
    /\ \/ wpc = "flush"
       \/ wpc = "loop" /\ pidx = Len(paragraphs)
    /\ questions' = IF Truthy(current_question)
                     THEN Append(questions, OpenUnit)
                     ELSE questions
    /\ wpc' = "done"
    /\ UNCHANGED << content_limit_chars, docx_text, paragraphs, pidx,
                    current_question, current_content, current_number >>
    /\ UNCHANGED matcherVars
    /\ UNCHANGED xmlVars

NextWord ==
    \/ ExtractStart
    \/ ParagraphStep
    \/ ExtractReturn

SpecWord == InitWord /\ [][NextWord]_vars

\* The extractor over documents made of the scenario's lines.
InitScenario ==
    /\ MatcherIdle
    /\ XmlIdle
    /\ content_limit_chars \in ContentLimits
    /\ \E n \in 0..MaxLines : docx_text \in [ 1..n -> ScenarioLines ]
    /\ paragraphs = << >>
    /\ pidx = 0
    /\ wpc = "start"
    /\ questions = << >>
    /\ current_question = << >>
    /\ current_content = << >>
    /\ current_number = << >>

SpecScenario == InitScenario /\ [][NextWord]_vars

\* The markup documents the structured extractor is given.
InitXml ==
    /\ MatcherIdle
    /\ WordIdle
    /\ \/ xml_content = Malformed
       \/ \E n \in 1..MaxNodes : xml_content \in Documents(n)
    /\ xpc = "start"
    /\ title_elements = << >>
    /\ tpos = 0
    /\ xquestions = << >>
    /\ seen_question_ids = { }

\* XMLQuestionExtractor.extract_questions up to its for loop; a parse error
\* is caught at line 201 and [] returned.
XmlStart ==
    /\ xpc = "start"
    /\ IF xml_content.wellformed
       THEN /\ title_elements' = TitlesWithId(xml_content.nodes, 1)
            /\ xpc' = "loop"
       ELSE /\ title_elements' = << >>
            /\ xpc' = "done"
    /\ xquestions' = << >>
    /\ seen_question_ids' = { }
    /\ tpos' = 0
    /\ UNCHANGED xml_content
    /\ UNCHANGED << matcherVars, wordVars >>

\* One iteration of the loop over title_elements.
TitleStep ==
    /\ xpc = "loop"
    /\ tpos < Len(title_elements)
    /\ LET title == title_elements[tpos + 1]
           question_id == xml_content.nodes[title].id
           question_text == TextOrEmpty(xml_content.nodes[title].text)
       IN  IF SkipTitle(question_id, question_text, seen_question_ids)
           THEN UNCHANGED << xquestions, seen_question_ids >>
           ELSE /\ seen_question_ids' = SeenAdd(seen_question_ids, question_id)
                /\ xquestions' =
                       Append(xquestions, TitleUnit(xml_content.nodes, title))
    /\ tpos' = tpos + 1
    /\ UNCHANGED << xml_content, xpc, title_elements >>
    /\ UNCHANGED << matcherVars, wordVars >>

\* The loop is exhausted: the list is returned.
XmlReturn ==
    /\ xpc = "loop"
    /\ tpos = Len(title_elements)
    /\ xpc' = "done"
    /\ UNCHANGED << xml_content, title_elements, tpos, xquestions,
                    seen_question_ids >>
    /\ UNCHANGED << matcherVars, wordVars >>

NextXml ==
    \/ XmlStart
    \/ TitleStep
    \/ XmlReturn

SpecXml == InitXml /\ [][NextXml]_vars

\* Either extractor on its own input.
NextExtractors ==
    \/ NextWord
    \/ NextXml

SpecExtractors == (InitWord \/ InitXml) /\ [][NextExtractors]_vars

\* ------------------------------------------------------------------ batch
\* The natural_language texts of the surveys of a batch: "xyz" (no question)
\* and "Q1. ab\n 2) c " (two questions).
SurveyDocuments ==
    { << << "x", "y", "z" >> >>,
      << << "Q", "1", ".", " ", "a", "b" >>,
         << " ", "2", ")", " ", "c", " " >> >> }

\* A markup of one element.
OneElement(kind) ==
    [ wellformed |-> TRUE,
      nodes |-> << [ tag |-> kind.tag, id |-> kind.id, text |-> kind.text,
                     parent |-> 0 ] >> ]

\* <page><title id="q1">a</title><title id="q2">a</title></page>
TwoTitles ==
    [ wellformed |-> TRUE,
      nodes |-> << [ tag |-> "page", id |-> NoAttribute, text |-> NoText,
                     parent |-> 0 ],
                   [ tag |-> "title", id |-> "q1", text |-> << "a" >>,
                     parent |-> 1 ],
                   [ tag |-> "title", id |-> "q2", text |-> << "a" >>,
                     parent |-> 1 ] >> ]

\* The xml_code texts of the surveys of a batch: one that lxml cannot parse,
\* <title id="q1">a</title>, <title id="q1"/> and the page of two titles.
SurveyMarkups ==
    { Malformed,
      OneElement(Element("title", "q1", << "a" >>)),
      OneElement(Element("title", "q1", NoText)),
      TwoTitles }

\* The question texts the two extractors find in these surveys.
SurveyWordTexts == { << "a", "b" >>, << "c" >> }

SurveyXmlTexts == { << "a" >> }

\* main up to the first call of process_survey_pair.
InitSurvey ==
    /\ threshold \in Thresholds
    /\ fuzz \in [ SurveyWordTexts \X SurveyXmlTexts -> FuzzTriples ]
    /\ docx_text \in SurveyDocuments
    /\ xml_content \in SurveyMarkups
    /\ word_questions = << >>
    /\ xml_questions = << >>
    /\ pc = "extract"
    /\ widx = 0
    /\ matches = << >>
    /\ unmatched_word = << >>
    /\ unmatched_xml = << >>
    /\ results = << >>
    /\ all_training_pairs = << >>
    /\ content_limit_chars = DefaultContentLimit
    /\ paragraphs = << >>
    /\ pidx = 0
    /\ wpc = "start"
    /\ questions = << >>
    /\ current_question = << >>
    /\ current_content = << >>
    /\ current_number = << >>
    /\ xpc = "off"
    /\ title_elements = << >>
    /\ tpos = 0
    /\ xquestions = << >>
    /\ seen_question_ids = { }

\* Line 332: the word extractor has returned, its list is bound to
\* word_questions and the structured extractor is called.
WordExtracted ==
    /\ pc = "extract"
    /\ wpc = "done"
    /\ xpc = "off"
    /\ word_questions' = questions
    /\ xpc' = "start"
    /\ UNCHANGED << threshold, xml_questions, fuzz, pc, widx, matches,
                    unmatched_word, unmatched_xml, results,
                    all_training_pairs >>
    /\ UNCHANGED wordVars
    /\ UNCHANGED << xml_content, title_elements, tpos, xquestions,
                    seen_question_ids >>

\* Line 333: the structured extractor has returned and its list is bound to
\* xml_questions.
XmlExtracted ==
    /\ pc = "extract"
    /\ xpc = "done"
    /\ xml_questions' = xquestions
    /\ pc' = "idle"
    /\ UNCHANGED << threshold, word_questions, fuzz, widx, matches,
                    unmatched_word, unmatched_xml, results,
                    all_training_pairs >>
    /\ UNCHANGED wordVars
    /\ UNCHANGED xmlVars

\* The loop of main takes the next survey of the batch and calls
\* process_survey_pair on it.
NextSurvey ==
    /\ pc = "idle"
    /\ Len(results) >= 1
    /\ docx_text' \in SurveyDocuments
    /\ xml_content' \in SurveyMarkups
    /\ word_questions' = << >>
    /\ xml_questions' = << >>
    /\ pc' = "extract"
    /\ wpc' = "start"
    /\ xpc' = "off"
    /\ UNCHANGED << threshold, fuzz, widx, matches, unmatched_word,
                    unmatched_xml, results, all_training_pairs >>
    /\ UNCHANGED << content_limit_chars, paragraphs, pidx, questions,
                    current_question, current_content, current_number >>
    /\ UNCHANGED << title_elements, tpos, xquestions, seen_question_ids >>

\* A batch: each survey is extracted on both sides and matched.  With
\* pc = "idle" after a result, ProcessSurveyPair is the next survey being the
\* same pair again (both extractors are functions of their input, so their
\* lists are the ones at hand) and NextSurvey is any other survey.
NextBatch ==
    \/ ExtractStart
    \/ ParagraphStep
    \/ ExtractReturn
    \/ WordExtracted
    \/ XmlStart
    \/ TitleStep
    \/ XmlReturn
    \/ XmlExtracted
    \/ ProcessSurveyPair
    \/ MatchStep
    \/ MatchReturn
    \/ NextSurvey

SpecSurvey == InitSurvey /\ [][NextBatch]_vars

\* ------------------------------------------------------------------ claims
\* The structured units of a list of matches, in order.
MatchedXml(ms) == [ k \in 1..Len(ms) |-> ms[k].xml_question ]

\* The best candidate score of word_q over a pool; 0 when the pool is empty.
BestCandidateScore(word_q, pool) ==
    IF Len(pool) = 0 THEN 0
    ELSE LET scores == { calculate_similarity(word_q.text, pool[k].text) :
                           k \in 1..Len(pool) }
         IN  CHOOSE s \in scores : \A t \in scores : t <= s

NoDuplicates(xs) == \A a, b \in 1..Len(xs) : a # b => xs[a] # xs[b]

\* The step just taken is a loop iteration that appended a pair.
PairAppended ==
    /\ pc = "loop"
    /\ Len(matches') = Len(matches) + 1

NewPair == matches'[Len(matches')]

\* C1: no structured unit occurs in two entries of 'matches', neither while
\* the loop runs nor in any returned result.
C1_OneToOne ==
    /\ NoDuplicates(MatchedXml(matches))
    /\ \A r \in 1..Len(results) : NoDuplicates(MatchedXml(results[r].matches))

C1_Witness ==
    \E r \in 1..Len(results) : Len(results[r].matches) >= 2

\* C2: in every returned result the structured units of 'matches' followed
\* by 'unmatched_xml' hold every input structured unit exactly once and
\* nothing else.
C2_Partition ==
    \A r \in 1..Len(results) :
        LET all == MatchedXml(results[r].matches) \o results[r].unmatched_xml
        IN  /\ Len(all) = Len(xml_questions)
            /\ \A k \in 1..Len(xml_questions) :
                   Cardinality({ j \in 1..Len(all) : all[j] = xml_questions[k] }) = 1

C2_Witness ==
    \E r \in 1..Len(results) :
        /\ Len(results[r].matches) >= 1
        /\ Len(results[r].unmatched_xml) >= 1

\* C3: every accepted pair has threshold <= similarity_score <= 1.0
\* (1000 thousandths).
C3_ScoreRange ==
    /\ \A k \in 1..Len(matches) :
           /\ threshold <= matches[k].similarity_score
           /\ matches[k].similarity_score <= 1000
    /\ \A r \in 1..Len(results) : \A k \in 1..Len(results[r].matches) :
           /\ threshold <= results[r].matches[k].similarity_score
           /\ results[r].matches[k].similarity_score <= 1000

C3_Witness ==
    /\ threshold = 900
    /\ \E r \in 1..Len(results) :
           /\ Len(results[r].matches) >= 1
           /\ Len(results[r].unmatched_word) >= 1

\* C4: the pair a loop iteration appends carries the highest score any unit
\* of the pool (as it was before the step) has against the word question,
\* and its structured unit is a unit of that pool with that score.
C4_BestIsMax ==
    [][ PairAppended =>
          /\ \A k \in 1..Len(unmatched_xml) :
                 calculate_similarity(NewPair.word_question.text,
                                      unmatched_xml[k].text)
                     <= NewPair.similarity_score
          /\ NewPair.xml_question # None =>
                 /\ \E k \in 1..Len(unmatched_xml) :
                        unmatched_xml[k] = NewPair.xml_question
                 /\ calculate_similarity(NewPair.word_question.text,
                                         NewPair.xml_question.text)
                        = NewPair.similarity_score ]_vars

\* A pair was made with the second unit of the input although the first was
\* in the pool as well: the second scored higher.
C4_Witness ==
    /\ Len(matches) = 1
    /\ Len(unmatched_xml) >= 1
    /\ matches[1].xml_question.xml_index = 1
    /\ unmatched_xml[1].xml_index = 0
    /\ calculate_similarity(matches[1].word_question.text, unmatched_xml[1].text)
           >= threshold

\* C5: of the units of the pool that tie for the appended pair's score, the
\* one paired has the smallest xml_index.
C5_TieEarliest ==
    [][ (PairAppended /\ NewPair.xml_question # None) =>
          \A k \in 1..Len(unmatched_xml) :
              calculate_similarity(NewPair.word_question.text,
                                   unmatched_xml[k].text)
                  = NewPair.similarity_score
              => NewPair.xml_question.xml_index <= unmatched_xml[k].xml_index
      ]_vars

\* A pair was made with the first unit of the input while a unit still in the
\* pool has the same score.
C5_Witness ==
    /\ Len(matches) = 1
    /\ matches[1].xml_question # None
    /\ \E k \in 1..Len(unmatched_xml) :
           /\ calculate_similarity(matches[1].word_question.text,
                                   unmatched_xml[k].text)
                  = matches[1].similarity_score
           /\ matches[1].xml_question.xml_index < unmatched_xml[k].xml_index

\* C6: an iteration whose best candidate score is below the threshold
\* appends the word question to 'unmatched_word', leaves the pool and the
\* matches as they are, and goes on to the next unit.
C6_MissFrame ==
    [][ ( /\ pc = "loop"
          /\ widx < Len(word_questions)
          /\ BestCandidateScore(word_questions[widx + 1], unmatched_xml)
                 < threshold )
        => /\ unmatched_word' = Append(unmatched_word, word_questions[widx + 1])
           /\ unmatched_xml' = unmatched_xml
           /\ matches' = matches
           /\ widx' = widx + 1
           /\ pc' = "loop" ]_vars

\* A unit was missed although a candidate with a positive score was in the
\* pool, and a later unit was matched.
C6_Witness ==
    /\ Len(unmatched_word) >= 1
    /\ Len(matches) >= 1
    /\ unmatched_word[1].word_index < matches[1].word_question.word_index
    /\ BestCandidateScore(unmatched_word[1], xml_questions) > 0

\* C7: every later call on the same inputs returns what the first returned.
C7_Idempotent ==
    \A r \in 1..Len(results) : results[r] = results[1]

C7_Witness ==
    /\ Len(results) >= 2
    /\ Len(results[1].matches) >= 1
    /\ Len(results[1].unmatched_xml) >= 1

\* C8: with an empty list on either side no call raises and every result
\* has no matches and lists all units of each side as unmatched.
C8_EmptySide ==
    (Len(word_questions) = 0 \/ Len(xml_questions) = 0) =>
        /\ pc # "raised"
        /\ pc = "done" => Len(results) = MaxRuns
        /\ \A r \in 1..Len(results) :
               /\ results[r].matches = << >>
               /\ results[r].unmatched_word = word_questions
               /\ results[r].unmatched_xml = xml_questions

C8_Witness ==
    /\ Len(xml_questions) = 0
    /\ Len(word_questions) >= 1
    /\ threshold = 0
    /\ Len(results) >= 1

\* The paragraphs of the document that start a question.
NumberedParagraphs ==
    { k \in 1..Len(SplitParagraphs(docx_text)) :
          is_question_start(SplitParagraphs(docx_text)[k]) }

\* The document is N >= 1 distinct numbered paragraphs, each followed by one
\* paragraph that matches no numbering rule.
RoundTripDocument ==
    LET ps == SplitParagraphs(docx_text)
    IN  /\ Len(ps) >= 2
        /\ Len(ps) % 2 = 0
        /\ \A k \in 1..Len(ps) : (k % 2 = 1) <=> is_question_start(ps[k])
        /\ \A a, b \in 1..Len(ps) :
               (a % 2 = 1 /\ b % 2 = 1 /\ a # b) => ps[a] # ps[b]

\* The leading label of a numbered paragraph: what precedes the remainder
\* the first matching rule captures, trimmed.
LeadingLabel(p) ==
    Strip(SubSeq(p, 1, PatternMatch(FirstPattern(p), p) - 1))

\* C9: for a document of N distinct numbered paragraphs, each followed by
\* one line of body text, extract_questions returns N units in paragraph
\* order, the i-th numbered by the leading label of the i-th numbered
\* paragraph.
C9_RoundTrip ==
    (wpc = "done" /\ RoundTripDocument) =>
        LET ps == SplitParagraphs(docx_text)
        IN  /\ Len(questions) * 2 = Len(ps)
            /\ \A k \in 1..Len(questions) :
                   /\ questions[k].word_index = k - 1
                   /\ 2 * k - 1 <= Len(ps) =>
                          /\ questions[k].number = LeadingLabel(ps[2 * k - 1])
                          /\ questions[k].full_content =
                                 Join(<< ps[2 * k - 1], ps[2 * k] >>)

\* C10: extract_questions returns exactly one unit per paragraph that
\* matches a numbering rule, whatever the content limit.
C10_UnitPerNumberedParagraph ==
    wpc = "done" => Len(questions) = Cardinality(NumberedParagraphs)

\* C11: the content_block of every unit extract_questions has emitted is
\* within the character budget.
C11_ContentCapped ==
    \A k \in 1..Len(questions) :
        Len(questions[k].full_content) <= content_limit_chars

\* "Q1. What is your age?\n18-24\n25-34"
AgeDocument == << AgeQuestionLine,
                  << "1", "8", "-", "2", "4" >>,
                  << "2", "5", "-", "3", "4" >> >>

\* C12: while a unit is open and the loop still runs, a paragraph that
\* matches no numbering rule is appended to the open unit's content and
\* changes nothing else; and the age document yields one unit "Q1." /
\* "What is your age?" whose content is the three lines in order.
C12_BodyAppended ==
    [][ /\ ( /\ wpc = "loop"
             /\ pidx < Len(paragraphs)
             /\ Len(current_question) > 0
             /\ FirstPattern(paragraphs[pidx + 1]) = 0 )
           => /\ current_content' = Append(current_content, paragraphs[pidx + 1])
              /\ questions' = questions
              /\ current_question' = current_question
              /\ current_number' = current_number
        /\ ( /\ wpc' = "done"
             /\ docx_text = AgeDocument
             /\ content_limit_chars = DefaultContentLimit )
           => questions' =
                  << [ number |-> << "Q", "1", "." >>,
                       text |-> SubSeq(AgeQuestionLine, 5, Len(AgeQuestionLine)),
                       full_content |-> Join(AgeDocument),
                       word_index |-> 0 ] >> ]_vars

C12_Witness ==
    /\ wpc = "done"
    /\ docx_text = AgeDocument
    /\ content_limit_chars = DefaultContentLimit
    /\ Len(questions) = 1

\* The paragraphs read so far that match a numbering rule.
NumberedSoFar == { k \in 1..pidx : FirstPattern(paragraphs[k]) # 0 }

\* C13: as long as no paragraph read matches a numbering rule nothing is
\* emitted or accumulated, and the first unit's content starts with the
\* first numbered paragraph, not with what precedes it.
C13_FrontMatterDiscarded ==
    wpc \in { "loop", "flush", "done" } =>
        IF NumberedSoFar = { }
        THEN /\ questions = << >>
             /\ current_content = << >>
             /\ current_question = << >>
        ELSE LET f == CHOOSE k \in NumberedSoFar : \A j \in NumberedSoFar : k <= j
                 first == IF Len(questions) > 0
                          THEN questions[1].full_content
                          ELSE Join(current_content)
             IN  StartsWithAt(first, paragraphs[f], 1)

C13_Witness ==
    /\ wpc = "done"
    /\ Len(questions) >= 1
    /\ Len(paragraphs) >= 2
    /\ FirstPattern(paragraphs[1]) = 0

\* C14: a document that is empty, blank or without any paragraph matching a
\* numbering rule yields the empty list.
C14_NothingRecognized ==
    ( /\ wpc = "done"
      /\ \A k \in 1..Len(docx_text) :
             Len(Strip(docx_text[k])) = 0 \/ FirstPattern(Strip(docx_text[k])) = 0 )
    => questions = << >>

C14_Witness ==
    /\ wpc = "done"
    /\ Len(docx_text) >= 3
    /\ Len(paragraphs) >= 1
    /\ Len(paragraphs) < Len(docx_text)
    /\ questions = << >>

\* The title's text after trimming.
TrimmedText(nodes, t) == Strip(TextOrEmpty(nodes[t].text))

\* C15: every unit either extractor has emitted has a non-empty question text
\* and a non-empty content block.
C15_NonEmptyUnits ==
    /\ \A k \in 1..Len(questions) :
           Len(questions[k].text) > 0 /\ Len(questions[k].full_content) > 0
    /\ \A k \in 1..Len(xquestions) :
           Len(xquestions[k].text) > 0 /\ Len(xquestions[k].full_section) > 0

\* A title with blank text was passed over and another one emitted.
C15_Witness ==
    /\ xpc = "done"
    /\ Len(xquestions) >= 1
    /\ \E k \in 1..Len(title_elements) :
           /\ xml_content.nodes[title_elements[k]].text # NoText
           /\ Len(TrimmedText(xml_content.nodes, title_elements[k])) = 0

\* C16: the units of the structured extractor have pairwise distinct ids.
C16_DistinctIds ==
    \A a, b \in 1..Len(xquestions) :
        a # b => xquestions[a].id # xquestions[b].id

\* Two title elements with text share an id and one unit was returned.
C16_Witness ==
    /\ xpc = "done"
    /\ Len(xquestions) = 1
    /\ \E a, b \in 1..Len(title_elements) :
           /\ a < b
           /\ xml_content.nodes[title_elements[a]].id
                  = xml_content.nodes[title_elements[b]].id
           /\ Len(TrimmedText(xml_content.nodes, title_elements[a])) > 0
           /\ Len(TrimmedText(xml_content.nodes, title_elements[b])) > 0

\* The first of the title elements (with an id) that carry `id`.
FirstTitle(id) ==
    title_elements[ CHOOSE k \in 1..Len(title_elements) :
        /\ xml_content.nodes[title_elements[k]].id = id
        /\ \A j \in 1..(k - 1) : xml_content.nodes[title_elements[j]].id # id ]

\* The first of the title elements that carry `id` and a text that is not
\* blank.
FirstTitleWithText(id) ==
    title_elements[ CHOOSE k \in 1..Len(title_elements) :
        /\ xml_content.nodes[title_elements[k]].id = id
        /\ Len(TrimmedText(xml_content.nodes, title_elements[k])) > 0
        /\ \A j \in 1..(k - 1) :
               \/ xml_content.nodes[title_elements[j]].id # id
               \/ Len(TrimmedText(xml_content.nodes, title_elements[j])) = 0 ]

\* C17 as stated: every unit returned is built from the first title element
\* in document order that carries its id.
C17_FirstOccurrence ==
    xpc = "done" =>
        \A k \in 1..Len(xquestions) :
            LET f == FirstTitle(xquestions[k].id)
            IN  /\ xquestions[k].text = TrimmedText(xml_content.nodes, f)
                /\ xquestions[k].full_section =
                       Serialize(xml_content.nodes,
                                 SectionElement(xml_content.nodes, f))

\* C17 amended: every unit returned is built from the first title element
\* in document order that carries its id and a text that is not blank, and
\* no other unit carries that id.
C17_FirstOccurrenceWithText ==
    xpc = "done" =>
        \A k \in 1..Len(xquestions) :
            LET f == FirstTitleWithText(xquestions[k].id)
            IN  /\ xquestions[k].text = TrimmedText(xml_content.nodes, f)
                /\ xquestions[k].full_section =
                       Serialize(xml_content.nodes,
                                 SectionElement(xml_content.nodes, f))
                /\ \A j \in 1..Len(xquestions) :
                       xquestions[j].id = xquestions[k].id => j = k

\* Two title elements share an id, the first has no text, and the unit
\* returned has the text of the second.
C17_Witness ==
    /\ xpc = "done"
    /\ Len(xquestions) = 1
    /\ Len(title_elements) >= 2
    /\ xml_content.nodes[title_elements[1]].id = xquestions[1].id
    /\ Len(TrimmedText(xml_content.nodes, title_elements[1])) = 0
    /\ xml_content.nodes[title_elements[2]].id = xquestions[1].id

\* The element the fallback chain names for title t: the nearest ancestor
\* with a section tag, else the parent, else the title itself.
ExpectedSection(nodes, t) ==
    LET parent == [ i \in 1..Len(nodes) |-> nodes[i].parent ]
        bounds == { a \in Ancestors(parent, t) : nodes[a].tag \in SectionTags }
    IN  IF bounds # { }
        THEN CHOOSE a \in bounds : \A b \in bounds : b <= a
        ELSE IF nodes[t].parent # 0 THEN nodes[t].parent
        ELSE t

\* C18: the unit appended for a title element carries the serialization of
\* the element the fallback chain names.
C18_SectionFallback ==
    [][ ( /\ xpc = "loop"
          /\ Len(xquestions') = Len(xquestions) + 1 )
        => xquestions'[Len(xquestions')].full_section =
               Serialize(xml_content.nodes,
                         ExpectedSection(xml_content.nodes,
                                         title_elements[tpos + 1])) ]_vars

\* question > survey > title: the section is the grandparent, not the parent.
C18_Witness ==
    /\ xpc = "done"
    /\ Len(xquestions) = 1
    /\ Len(xml_content.nodes) = 3
    /\ xml_content.nodes[1].tag = "question"
    /\ xml_content.nodes[2].tag = "survey"
    /\ xml_content.nodes[3].tag = "title"
    /\ xml_content.nodes[3].parent = 2
    /\ xquestions[1].full_section = Serialize(xml_content.nodes, 1)

\* A call of process_survey_pair returns on this step.
SurveyReturned == Len(results') = Len(results) + 1

\* C19: on markup that is not well-formed the structured extractor returns
\* the empty list, nothing is raised while the survey is processed, and
\* process_survey_pair returns no matches, an empty unmatched_xml and all
\* natural-language units in unmatched_word, after which the loop of main
\* goes on (or is finished).
C19_ParseFailureRecovered ==
    [][ xml_content = Malformed =>
          /\ xpc = "start" => (xpc' = "done" /\ xquestions' = << >>)
          /\ (pc = "extract" /\ xpc = "done") => xml_questions' = << >>
          /\ pc' # "raised"
          /\ SurveyReturned =>
                /\ results'[Len(results')] =
                       [ matches |-> << >>,
                         unmatched_word |-> word_questions,
                         unmatched_xml |-> << >> ]
                /\ pc' = AfterReturn ]_vars

\* A survey with two questions was matched and returned, and the next
\* survey, whose markup is not well-formed, has returned its two questions
\* as unmatched.
C19_Witness ==
    /\ xml_content = Malformed
    /\ Len(results) = 2
    /\ Len(results[1].matches) >= 1
    /\ Len(word_questions) = 2
    /\ results[2].unmatched_word = word_questions

\* C20: no call of process_survey_pair ends with an exception; each ends by
\* returning a result.
C20_NoExceptionEscapes == pc # "raised"

\* C21: for the matches of every returned result create_training_pairs
\* returns one record per pair, in order, the k-th carrying the k-th pair's
\* number, word content, structured content, score, both indices and the
\* structured id.
C21_OneRecordPerPair ==
    \A r \in 1..Len(results) :
        LET ms == results[r].matches
            tp == create_training_pairs(r, ms)
        IN  /\ Len(tp) = Len(ms)
            /\ \A k \in 1..Len(ms) :
                   /\ tp[k].survey_title = r
                   /\ tp[k].question_number = ms[k].word_question.number
                   /\ tp[k].natural_language = ms[k].word_question.full_content
                   /\ tp[k].xml_code = ms[k].xml_question.full_section
                   /\ tp[k].similarity_score = ms[k].similarity_score
                   /\ tp[k].metadata.word_index = ms[k].word_question.word_index
                   /\ tp[k].metadata.xml_index = ms[k].xml_question.xml_index
                   /\ tp[k].metadata.xml_id = ms[k].xml_question.id

\* A survey returned two pairs whose structured units differ.
C21_Witness ==
    \E r \in 1..Len(results) :
        /\ Len(results[r].matches) = 2
        /\ results[r].matches[1].xml_question.id = "q1"
        /\ results[r].matches[2].xml_question.id = "q2"

\* The training records of the first k results, survey after survey.
RECURSIVE CorpusOf(_, _)
CorpusOf(rs, k) ==
    IF k = 0 THEN << >>
    ELSE CorpusOf(rs, k - 1) \o create_training_pairs(k, rs[k].matches)

RECURSIVE MatchCount(_, _)
MatchCount(rs, k) ==
    IF k = 0 THEN 0 ELSE MatchCount(rs, k - 1) + Len(rs[k].matches)

IsPrefix(xs, ys) == Len(xs) <= Len(ys) /\ SubSeq(ys, 1, Len(xs)) = xs

\* C22: a step either leaves both accumulators alone or is the return of
\* one survey, which appends one record to the debug sequence and the
\* survey's pairs to the corpus, everything earlier staying in place; after
\* it the corpus is the pairs of survey 1, then of survey 2, and so on, as
\* many as the debug records have matches, and the batch ends with one
\* debug record per survey.
C22_Accumulators ==
    [][ /\ \/ results' = results /\ all_training_pairs' = all_training_pairs
           \/ /\ Len(results') = Len(results) + 1
              /\ IsPrefix(results, results')
              /\ IsPrefix(all_training_pairs, all_training_pairs')
        /\ all_training_pairs' = CorpusOf(results', Len(results'))
        /\ Len(all_training_pairs') = MatchCount(results', Len(results'))
        /\ pc' = "done" => Len(results') = MaxRuns ]_vars

\* A survey without matches and then a survey with two were recorded.
C22_Witness ==
    /\ Len(results) = 2
    /\ Len(results[1].matches) = 0
    /\ Len(results[1].unmatched_word) = 2
    /\ Len(results[2].matches) = 2
    /\ Len(all_training_pairs) = 2
    /\ all_training_pairs[1].survey_title = 2

\* C23: each of the three ratios of every pair of texts is within 0..100
\* percent, the composite of every pair is within 0..1000 thousandths, and
\* so is every score recorded in a match.
C23_CompositeInRange ==
    /\ \A p \in DOMAIN fuzz :
           /\ \A i \in 1..3 : fuzz[p][i] \in 0..100
           /\ calculate_similarity(p[1], p[2]) \in 0..1000
    /\ \A k \in 1..Len(matches) : matches[k].similarity_score \in 0..1000
    /\ \A r \in 1..Len(results) : \A k \in 1..Len(results[r].matches) :
           results[r].matches[k].similarity_score \in 0..1000

\* A pair with three different ratios was accepted with the composite 3r +
\* 3p + 4t.
C23_Witness ==
    /\ Len(matches) = 1
    /\ fuzz[<< WordText(1), XmlText(1) >>] = << 100, 99, 50 >>
    /\ matches[1].similarity_score = 797

\* The base written with its first wordings: lower case, single blanks, no
\* optional phrase.
Plain(base) == TextFrom(base, [ i \in 1..Len(base) |-> 1 ], 1)

\* The number of characters of Plain(base) before piece i.
RECURSIVE OffsetOf(_, _)
OffsetOf(base, i) ==
    IF i = 1 THEN 0
    ELSE OffsetOf(base, i - 1) + Len(base[i - 1].wordings[1])

\* An optional phrase of the base stands inside an occurrence of a listed
\* phrase of the text without it.
PhraseInsidePhrase(base) ==
    \E i \in 1..Len(base) :
        /\ base[i].optional
        /\ \E a \in 1..Len(artifacts) : \E j \in 1..Len(Plain(base)) :
               /\ MatchesIgnoreCase(Plain(base), artifacts[a], j)
               /\ j <= OffsetOf(base, i)
               /\ OffsetOf(base, i) < j + Len(artifacts[a]) - 1

\* Once process_survey_pair has returned: the two texts normalize to the
\* same string, score above 0.9 and were paired with that score.
ScoredAlike(text1, text2) ==
    Len(results) >= 1 =>
        /\ normalize_text(text1) = normalize_text(text2)
        /\ calculate_similarity(text1, text2) > 900
        /\ Len(results[1].matches) = 1
        /\ results[1].matches[1].similarity_score > 900

\* The pairs of texts that are writings of the same base.
WrittenPairs(bases) ==
    UNION { { << TextFrom(base, w1, 1), TextFrom(base, w2, 1) >> :
                w1 \in Writings(base), w2 \in Writings(base) } :
            base \in bases }

AllPairs == WrittenPairs(Bases)

PairsUnlessNested ==
    WrittenPairs({ base \in Bases : ~PhraseInsidePhrase(base) })

\* C24 as stated: two texts that are writings of the same base (they differ
\* only by case, by whitespace runs or by a listed phrase) normalize to the
\* same string and score above 0.9.
C24_SameAfterNormalising ==
    << word_questions[1].text, xml_questions[1].text >> \in AllPairs =>
        ScoredAlike(word_questions[1].text, xml_questions[1].text)

\* C24 amended: the same, for the bases in which no optional phrase stands
\* inside another occurrence of a listed phrase.
C24_SameUnlessNested ==
    << word_questions[1].text, xml_questions[1].text >> \in PairsUnlessNested =>
        ScoredAlike(word_questions[1].text, xml_questions[1].text)

\* "What is your age?" was paired with "What is your age? (please select
\* one)" at score 1.0.
C24_Witness ==
    /\ word_questions[1].text = AgeText
    /\ xml_questions[1].text = AgeText \o << " " >> \o artifacts[1]
    /\ Len(results) >= 1
    /\ Len(results[1].matches) = 1
    /\ results[1].matches[1].similarity_score = 1000

\* C25: in the list of either extractor the unit at position k (from 1) has
\* sequence index k - 1, and the structured units stand in the document
\* order of the title elements they were built from.
C25_SequenceIndex ==
    /\ \A k \in 1..Len(questions) : questions[k].word_index = k - 1
    /\ \A k \in 1..Len(xquestions) : xquestions[k].xml_index = k - 1
    /\ \A a, b \in 1..Len(xquestions) :
           a < b => FirstTitleWithText(xquestions[a].id)
                        < FirstTitleWithText(xquestions[b].id)

\* Of three title elements the first was passed over for its blank text and
\* the other two were numbered 0 and 1.
C25_Witness ==
    /\ xpc = "done"
    /\ Len(title_elements) = 3
    /\ Len(TrimmedText(xml_content.nodes, title_elements[1])) = 0
    /\ Len(xquestions) = 2
    /\ xquestions[2].xml_index = 1

\* The score of a word unit against a structured unit, in thousandths.
PairScore(word_q, xml_q) == calculate_similarity(word_q.text, xml_q.text)

\* The scores of all pairs of input units.
ScoreTable ==
    [ i \in 1..Len(word_questions), j \in 1..Len(xml_questions) |->
        PairScore(word_questions[i], xml_questions[j]) ]

\* The one-to-one assignments of word units to structured units (0: left
\* unmatched) that use only pairs scoring at least the threshold.
Assignments(scores) ==
    { f \in [ 1..Len(word_questions) -> 0..Len(xml_questions) ] :
        /\ \A i, j \in DOMAIN f : (i # j /\ f[i] # 0) => f[i] # f[j]
        /\ \A i \in DOMAIN f : f[i] # 0 => scores[i, f[i]] >= threshold }

RECURSIVE AssignmentTotal(_, _, _)
AssignmentTotal(scores, f, i) ==
    IF i = 0 THEN 0
    ELSE AssignmentTotal(scores, f, i - 1)
         + (IF f[i] = 0 THEN 0 ELSE scores[i, f[i]])

RECURSIVE MatchesTotal(_, _)
MatchesTotal(ms, k) ==
    IF k = 0 THEN 0 ELSE MatchesTotal(ms, k - 1) + ms[k].similarity_score

\* C26: once the runs are over, the matches of every returned result total
\* no more than the best one-to-one assignment over the scores that reach
\* the threshold (and, as the witness shows, sometimes strictly less).
C26_GreedyAtMostOptimal ==
    pc = "done" =>
        \E scores \in { ScoreTable } :
        \E totals \in { { AssignmentTotal(scores, f, Len(word_questions)) :
                             f \in Assignments(scores) } } :
            \A r \in 1..Len(results) :
                \E best \in totals :
                    MatchesTotal(results[r].matches, Len(results[r].matches))
                        <= best

\* The first word unit took a structured unit that scores strictly higher
\* against the second word unit, which was then left unmatched; another
\* assignment pairs both units and totals strictly more.
C26_Witness ==
    /\ pc = "done"
    /\ Len(word_questions) = 2
    /\ Len(results[1].matches) = 1
    /\ results[1].matches[1].word_question = word_questions[1]
    /\ results[1].unmatched_word = << word_questions[2] >>
    /\ results[1].matches[1].xml_question = xml_questions[1]
    /\ ScoreTable[2, 1] > results[1].matches[1].similarity_score
    /\ \E f \in Assignments(ScoreTable) :
           /\ f[1] # 0 /\ f[2] # 0
           /\ AssignmentTotal(ScoreTable, f, 2)
                  > MatchesTotal(results[1].matches, 1)

\* C27: every unit takes its number and its text from the first rule that
\* matches its paragraph: the number is the trimmed part of the paragraph
\* before the captured remainder and the text is the trimmed remainder, also
\* when the remainder occurs inside the label.
C27_LabelBeforeRemainder ==
    \A k \in 1..Len(questions) :
        \E i \in 1..Len(SplitParagraphs(docx_text)) :
            LET p == SplitParagraphs(docx_text)[i]
            IN  /\ is_question_start(p)
                /\ questions[k].text = extract_question_text(p)
                /\ questions[k].number = LeadingLabel(p)

\* C28: every entry of matches pairs its word unit with a structured unit
\* of the input (never with None), whatever the threshold and the scores.
C28_MatchesReferenceUnits ==
    \A k \in 1..Len(matches) :
        /\ matches[k].xml_question # None
        /\ \E j \in 1..Len(xml_questions) :
               matches[k].xml_question = xml_questions[j]

\* The word units of a list of matches, in the order of the list.
MatchedWord(ms) == [ k \in 1..Len(ms) |-> ms[k].word_question ]

\* The positions in the input at which the units of a list stand.
WordPositions(ws) ==
    [ k \in 1..Len(ws) |-> ListIndex(word_questions, ws[k]) ]

Increasing(ns) == \A a, b \in 1..Len(ns) : a < b => ns[a] < ns[b]

\* C29: in every returned result each input word unit stands exactly once in
\* 'matches' and 'unmatched_word' taken together, both lists follow the
\* input order, and there are at most min(#word, #structured) matches.
C29_WordPartition ==
    \A r \in 1..Len(results) :
        LET mw == MatchedWord(results[r].matches)
            uw == results[r].unmatched_word
            all == mw \o uw
        IN  /\ \A i \in 1..Len(word_questions) :
                   Cardinality({ j \in 1..Len(all) :
                                   all[j] = word_questions[i] }) = 1
            /\ Len(all) = Len(word_questions)
            /\ Increasing(WordPositions(mw))
            /\ Increasing(WordPositions(uw))
            /\ Len(mw) <= Len(word_questions)
            /\ Len(mw) <= Len(xml_questions)

\* A returned result with a matched and an unmatched word unit.
C29_Witness ==
    \E r \in 1..Len(results) :
        /\ Len(results[r].matches) >= 1
        /\ Len(results[r].unmatched_word) >= 1
        /\ Len(results[r].matches) = Len(xml_questions)

\* C30: no step of match_questions changes either of the lists it was
\* given: the pool it consumes is a copy and the word list is only read.
C30_InputsUnchanged ==
    [][ /\ xml_questions' = xml_questions
        /\ word_questions' = word_questions ]_vars

\* A unit has been taken out of the pool while the caller's list still
\* holds it.
C30_Witness ==
    /\ pc = "loop"
    /\ Len(matches) >= 1
    /\ Len(unmatched_xml) < Len(xml_questions)
    /\ \E k \in 1..Len(xml_questions) :
           /\ xml_questions[k] = matches[1].xml_question
           /\ ListIndex(unmatched_xml, xml_questions[k]) = 0

====
